---------------------------- MODULE Spec2Model ----------------------------
(***************************************************************************)
(* The session/cart store of the shop service (src/app.py).                *)
(*                                                                         *)
(* Flask runs the service with threaded=True: every request is handled by  *)
(* its own thread.  A worker of the model is such a thread; it handles one *)
(* request at a time, stepping through the handler of the route.  The      *)
(* shared state is the module-level dict `carts` and the one module-level  *)
(* `lock`.  The handlers hold *references* to cart dicts, so dicts are     *)
(* heap objects with an identity: `carts` maps a session id to an object,  *)
(* and a handler's local `cart` is an object too, which may or may not     *)
(* still be the one `carts` holds.                                         *)
(*                                                                         *)
(* A dict is modelled as CPython (3.8 and later) keeps it: an array of     *)
(* entries in insertion order, where a deleted entry leaves a dummy slot;  *)
(* an iterator over it remembers the dict's size, its own position and the *)
(* number of entries it still expects, and raises RuntimeError when the    *)
(* size has changed under it or when it finds an entry it did not expect.  *)
(* (The entry array is compacted only when a sixth key is inserted into    *)
(* one dict object, which no run within MaxRequests reaches.)              *)
(*                                                                         *)
(* A payload's qty is a JSON integer or a JSON string that is no numeral,   *)
(* on which int() raises.  The cart routes are called with an X-Session-Id *)
(* header, as the load generator calls them; /healthz and /catalog are     *)
(* called with or without one.  log_event writes a log line and changes    *)
(* nothing of the store, so it is no step of the model.                    *)
(*                                                                         *)
(* Prices are integer cents: 99.90 is 9990.                                *)
(***************************************************************************)
EXTENDS Integers, Sequences, FiniteSets, TLC

\* ------------------------------------------------------------------ bounds
NumWorkers == 3          \* request threads the server may run at once
MaxRequests == 3         \* requests the clients send in one run

Workers == 1..NumWorkers
Sessions == {"A", "B"}   \* the X-Session-Id values there are

\* What the clients of one run send: over how many connections at once, and
\* the X-Session-Id, item_id and qty values of their requests ("9" is no
\* catalog item).  One run has many requests on one session, the other has
\* requests on two.
Clients(threads, sessions, items, qtys) ==
  [threads |-> threads, sessions |-> sessions, items |-> items, qtys |-> qtys]

Profiles ==
  {Clients(2, {"A"}, {"1", "2", "9"}, {0, 1, 2}),
   Clients(2, {"A", "B"}, {"1", "2"}, {1})}

\* ----------------------------------------------------------------- catalog
catalog ==
  [i \in {"1", "2", "3", "4", "5"} |->
     CASE i = "1" -> [id |-> "1", name |-> "Mechanical Keyboard", price |-> 9990]
       [] i = "2" -> [id |-> "2", name |-> "Wireless Mouse", price |-> 3950]
       [] i = "3" -> [id |-> "3", name |-> "USB-C Hub", price |-> 2900]
       [] i = "4" -> [id |-> "4", name |-> "27in Monitor", price |-> 19900]
       [] i = "5" -> [id |-> "5", name |-> "Noise-Canceling Headphones", price |-> 14900]]

\* ------------------------------------------------------------ dict objects
\* An entry slot of a dict; a deleted entry leaves the dummy slot behind.
Dummy == [id |-> "<dummy>", qty |-> 0]

Slot(k, v) == [id |-> k, qty |-> v]

\* `k in d`
DictHas(d, k) == \E i \in DOMAIN d : d[i].id = k

DictIndex(d, k) == CHOOSE i \in DOMAIN d : d[i].id = k

\* `d.get(k, default)`
DictGet(d, k, default) == IF DictHas(d, k) THEN d[DictIndex(d, k)].qty ELSE default

\* `d[k] = v`: in place for a key the dict has, appended otherwise
DictSet(d, k, v) ==
  IF DictHas(d, k) THEN [d EXCEPT ![DictIndex(d, k)] = Slot(k, v)]
  ELSE Append(d, Slot(k, v))

\* `del d[k]`
DictDel(d, k) == [d EXCEPT ![DictIndex(d, k)] = Dummy]

\* `len(d)` (ma_used)
DictLen(d) == Cardinality({i \in DOMAIN d : d[i] # Dummy})

\* The keys of d.
DictKeys(d) == {d[i].id : i \in {j \in DOMAIN d : d[j] # Dummy}}

\* The item -> quantity mapping a dict holds, whatever its slots' layout.
Mapping(d) == [k \in DictKeys(d) |-> DictGet(d, k, 0)]

\* The heap: every dict object a request or `carts` may refer to.  owner is
\* the session id the dict was created for ("" marks a free cell).
ObjIds == 1..(Cardinality(Sessions) + NumWorkers + 1)
NoObj == 0
FreeCell == [owner |-> "", slots |-> <<>>]

\* A fresh object: the lowest free cell.
NewObj(h) == CHOOSE o \in ObjIds : h[o].owner = "" /\ \A o2 \in 1..(o - 1) : h[o2].owner # ""

\* Reference counting: a dict neither `carts` nor a handler's local refers
\* to is freed.
Collect(h, cs, loc) ==
  [o \in ObjIds |->
     IF (\E s \in Sessions : cs[s] = o) \/ (\E p \in Workers : loc[p].cart = o)
     THEN h[o] ELSE FreeCell]

\* ---------------------------------------------------------------- pricing
LineItem(product, qty) ==
  [id |-> product.id, name |-> product.name, unit_price |-> product.price,
   qty |-> qty, line_total |-> product.price * qty]

\* Mutant: the subtotal adds the unit price of a line, not its line total.
TotalsStep_UnitPrice(acc, k, qty) ==
  IF k \notin DOMAIN catalog THEN acc
  ELSE [items |-> Append(acc.items, LineItem(catalog[k], qty)),
        subtotal |-> acc.subtotal + catalog[k].price]

\* One round of the loop of cart_totals on the entry (k, qty), from the
\* accumulator acc = [items, subtotal].
TotalsStep(acc, k, qty) ==
  IF k \notin DOMAIN catalog THEN acc
  ELSE [items |-> Append(acc.items, LineItem(catalog[k], qty)),
        subtotal |-> acc.subtotal + catalog[k].price * qty]

RECURSIVE TotalsFrom(_, _, _)
TotalsFrom(d, i, acc) ==
  IF i > Len(d) THEN acc
  ELSE IF d[i] = Dummy THEN TotalsFrom(d, i + 1, acc)
  ELSE TotalsFrom(d, i + 1, TotalsStep(acc, d[i].id, d[i].qty))

\* cart_totals(cart_items) on a dict nobody changes meanwhile.
cart_totals(d) == TotalsFrom(d, 1, [items |-> <<>>, subtotal |-> 0])

\* --------------------------------------------------------------- requests
\* The JSON values a payload's "qty" may be: an integer, or a string that is
\* no numeral.
JsonInt(n) == <<"int", n>>
JsonStr(t) == <<"str", t>>
NotNumerals == {"abc"}

\* `int(v)` raises ValueError.
IntRaises(v) == v[1] = "str" /\ v[2] \in NotNumerals

\* `int(v)` where it returns
int(v) == v[2]

\* The values the clients send as "qty".
JsonQtys(c) == {JsonInt(n) : n \in c.qtys} \cup {JsonStr(t) : t \in NotNumerals}

\* `str(uuid.uuid4())` of get_or_create_session_id, for the n-th request: an
\* id no request had before.
uuid4(n) == "uuid-" \o ToString(n)

\* get_or_create_session_id(): the header's value, or a fresh id without one
\* ("" is the absent header)
get_or_create_session_id(header, n) == IF header # "" THEN header ELSE uuid4(n)

Request(op, sid, item_id, qty) == [op |-> op, sid |-> sid, item_id |-> item_id, qty |-> qty]
NoRequest == Request("none", "", "", 0)

Response(status, error, message, items, subtotal, order_id, header) ==
  [status |-> status, error |-> error, message |-> message, items |-> items,
   subtotal |-> subtotal, order_id |-> order_id, header |-> header]
NoResponse == Response(0, "", "", <<>>, 0, 0, "")

\* The locals of a handler: its `cart`, the iterator of cart_totals over it
\* (pos: the slot it has passed, used: the size it saw when created, len:
\* the entries it still expects) and cart_totals' items and subtotal.
Locals(cart, pos, used, len, items, subtotal) ==
  [cart |-> cart, pos |-> pos, used |-> used, len |-> len, items |-> items,
   subtotal |-> subtotal]
NoLocals == Locals(NoObj, 0, 0, 0, <<>>, 0)

VARIABLES
  clients,    \* what the clients of this run send (never changes)
  carts,      \* session id -> the dict object of its cart, NoObj without entry
  heap,       \* the dict objects
  lock,       \* 0 when free, else the worker holding it
  pc,         \* worker -> where its handler stands
  req,        \* worker -> the request it handles
  local,      \* worker -> the handler's locals
  out,        \* the response the last step sent, NoOut when it sent none
  nreq,       \* requests received so far
  norders,    \* order ids minted so far
  nempty,     \* history: EmptyCart responses sent so far
  touched,    \* history: worker -> its request has changed some cart's contents
  post        \* history: worker -> its session's cart right after its own mutation

vars == <<clients, carts, heap, lock, pc, req, local, out, nreq, norders, nempty, touched, post>>

\* The contents of the cart of session s: empty without an entry.
Contents(cs, h, s) == IF cs[s] = NoObj THEN <<>> ELSE Mapping(h[cs[s]].slots)

AllContents(cs, h) == [s \in Sessions |-> Contents(cs, h, s)]

\* This step changes some cart's contents.
Changed == AllContents(carts', heap') # AllContents(carts, heap)

\* A response on the wire: the worker that sent it, the request it answers,
\* and the history of that request.
Sent(p, r, response, t, d) ==
  [worker |-> p, req |-> r, resp |-> response, touched |-> t, post |-> d]
NoOut == Sent(0, NoRequest, NoResponse, FALSE, <<>>)

Init ==
  /\ clients \in Profiles
  /\ carts = [s \in Sessions |-> NoObj]
  /\ heap = [o \in ObjIds |-> FreeCell]
  /\ lock = 0
  /\ pc = [p \in Workers |-> "idle"]
  /\ req = [p \in Workers |-> NoRequest]
  /\ local = [p \in Workers |-> NoLocals]
  /\ out = NoOut
  /\ nreq = 0
  /\ norders = 0
  /\ nempty = 0
  /\ touched = [p \in Workers |-> FALSE]
  /\ post = [p \in Workers |-> <<>>]

\* ------------------------------------------------------- handlers' helpers
\* A thread takes a request.
Admit(p) ==
  /\ p <= clients.threads
  /\ pc[p] = "idle"
  /\ nreq < MaxRequests
  /\ nreq' = nreq + 1

\* The handler of request r goes on to its `with lock:`.
Proceed(p, r, to) ==
  /\ pc' = [pc EXCEPT ![p] = to]
  /\ req' = [req EXCEPT ![p] = r]
  /\ out' = NoOut
  /\ UNCHANGED <<local, nempty, touched, post>>

\* The handler returns: its locals die.
Return(p) ==
  /\ pc' = [pc EXCEPT ![p] = "idle"]
  /\ req' = [req EXCEPT ![p] = NoRequest]
  /\ local' = [local EXCEPT ![p] = NoLocals]

\* The response to request r is sent; the history of the request ends.
Respond(p, r, response) ==
  /\ out' = Sent(p, r, response, touched[p] \/ Changed, post[p])
  /\ nempty' = IF response.error = "EmptyCart" THEN nempty + 1 ELSE nempty
  /\ touched' = [touched EXCEPT ![p] = FALSE]
  /\ post' = [post EXCEPT ![p] = <<>>]

\* The handler goes on without a response yet.
Continue(p) ==
  /\ out' = NoOut
  /\ touched' = [touched EXCEPT ![p] = @ \/ Changed]
  /\ UNCHANGED <<req, nempty>>

\* Mutant: `if not item_id`, without the catalog lookup.
InvalidItem_Missing(item_id) == item_id = ""

\* `not item_id or item_id not in catalog`
InvalidItem(item_id) == item_id = "" \/ item_id \notin DOMAIN catalog

\* `qty <= 0`
InvalidQty(qty) == qty <= 0

\* attach_session_header(jsonify({"error": ...}), session_id), 400
Error400(sid, error) == Response(400, error, "", <<>>, 0, 0, sid)

\* handle_exception: the generic 500 with str(e) as its message, which
\* attaches no session header
Error500(e) == Response(500, "internal_server_error", e, <<>>, 0, 0, "")

\* str(e) of the exceptions there are
ValueError == "invalid literal for int() with base 10"
RuntimeError == "dictionary changed size during iteration"

\* The conversion and the validation add_to_cart and remove_from_cart start
\* with, on the payload {"item_id": item_id, "qty": v}.  (A request holds the
\* handler's `qty`, which is left at 0 when int() raises.)
Validate(p, op, sid, item_id, v, to) ==
  IF IntRaises(v)
  THEN Return(p) /\ Respond(p, Request(op, sid, item_id, 0), Error500(ValueError))
  ELSE LET r == Request(op, sid, item_id, int(v)) IN
  IF InvalidItem(r.item_id)
  THEN Return(p) /\ Respond(p, r, Error400(r.sid, "InvalidItem"))
  ELSE IF InvalidQty(r.qty)
  THEN Return(p) /\ Respond(p, r, Error400(r.sid, "InvalidQuantity"))
  ELSE Proceed(p, r, to)

\* `carts.setdefault(session_id, {})`: the map and the heap after it
SetDefaultCarts(cs, h, s) == IF cs[s] # NoObj THEN cs ELSE [cs EXCEPT ![s] = NewObj(h)]

SetDefaultHeap(cs, h, s) ==
  IF cs[s] # NoObj THEN h ELSE [h EXCEPT ![NewObj(h)] = [owner |-> s, slots |-> <<>>]]

\* Mutant: checkout and clear forget to reset the cart.
ResetCarts_Keep(cs, h, s) == cs

\* Mutant: the entry is deleted (`del carts[session_id]`) instead of reset.
ResetCarts_Delete(cs, h, s) == [cs EXCEPT ![s] = NoObj]

\* Mutant: the whole map is emptied (`carts.clear()`) before the reset.
ResetCarts_All(cs, h, s) == [x \in Sessions |-> IF x = s THEN NewObj(h) ELSE NoObj]

\* `carts[session_id] = {}`
ResetCarts(cs, h, s) == [cs EXCEPT ![s] = NewObj(h)]

\* Mutant: the new dict is a copy of the old one (`dict(carts[session_id])`).
ResetHeap_Copy(cs, h, s) ==
  [h EXCEPT ![NewObj(h)] =
     [owner |-> s, slots |-> IF cs[s] = NoObj THEN <<>> ELSE h[cs[s]].slots]]

ResetHeap(cs, h, s) == [h EXCEPT ![NewObj(h)] = [owner |-> s, slots |-> <<>>]]

\* `cart[item_id] = cart.get(item_id, 0) + qty`
Increment(d, item_id, qty) == DictSet(d, item_id, DictGet(d, item_id, 0) + qty)

\* Mutant: `cart[item_id] -= 1`, whatever the quantity asked.
Decrement_One(d, item_id, qty) == DictSet(d, item_id, DictGet(d, item_id, 0) - 1)

\* `cart[item_id] -= qty`
Decrement(d, item_id, qty) == DictSet(d, item_id, DictGet(d, item_id, 0) - qty)

\* Mutant: `if cart[item_id] < 0`, which keeps an entry of quantity 0.
DeleteIfSpent_Strict(d, item_id) ==
  IF DictGet(d, item_id, 0) < 0 THEN DictDel(d, item_id) ELSE d

\* Mutant: the entry is deleted whatever is left of it.
DeleteIfSpent_Always(d, item_id) == DictDel(d, item_id)

\* `if cart[item_id] <= 0: del cart[item_id]`
DeleteIfSpent(d, item_id) ==
  IF DictGet(d, item_id, 0) <= 0 THEN DictDel(d, item_id) ELSE d

\* ---------------------------------------------------------------- routes
\* GET /healthz: its response gets no session header.
health(p) ==
  \E header \in clients.sessions \cup {""} :
    /\ Admit(p)
    /\ UNCHANGED <<clients, carts, heap, lock, norders, pc, req, local>>
    /\ Respond(p, Request("health", header, "", 0), Response(200, "", "ok", <<>>, 0, 0, ""))

\* GET /catalog
get_catalog(p) ==
  \E header \in clients.sessions \cup {""} :
    /\ Admit(p)
    /\ UNCHANGED <<clients, carts, heap, lock, norders, pc, req, local>>
    /\ Respond(p, Request("catalog", header, "", 0),
               Response(200, "", "catalog", <<>>, 0, 0,
                        get_or_create_session_id(header, nreq + 1)))

\* GET /cart, to its get_cart
view_cart(p) ==
  \E sid \in clients.sessions :
    /\ Admit(p)
    /\ UNCHANGED <<clients, carts, heap, lock, norders>>
    /\ Proceed(p, Request("view", sid, "", 0), "view_wait")

\* POST /cart/add, to its `with lock:`
add_to_cart(p) ==
  \E sid \in clients.sessions, item_id \in clients.items, v \in JsonQtys(clients) :
    /\ Admit(p)
    /\ UNCHANGED <<clients, carts, heap, lock, norders>>
    /\ Validate(p, "add", sid, item_id, v, "add_wait")

\* POST /cart/remove, to its `with lock:`
remove_from_cart(p) ==
  \E sid \in clients.sessions, item_id \in clients.items, v \in JsonQtys(clients) :
    /\ Admit(p)
    /\ UNCHANGED <<clients, carts, heap, lock, norders>>
    /\ Validate(p, "remove", sid, item_id, v, "remove_wait")

\* DELETE /cart, to its `with lock:`
clear_cart(p) ==
  \E sid \in clients.sessions :
    /\ Admit(p)
    /\ UNCHANGED <<clients, carts, heap, lock, norders>>
    /\ Proceed(p, Request("clear", sid, "", 0), "clear_wait")

\* POST /checkout, to its `with lock:`
checkout(p) ==
  \E sid \in clients.sessions :
    /\ Admit(p)
    /\ UNCHANGED <<clients, carts, heap, lock, norders>>
    /\ Proceed(p, Request("checkout", sid, "", 0), "checkout_wait")

\* `with lock:` is entered: the thread waits until the lock is free.
WaitPcs == {"view_wait", "add_wait", "remove_wait", "clear_wait", "checkout_wait"}

Entered(at) ==
  CASE at = "view_wait" -> "view_in"
    [] at = "add_wait" -> "add_in"
    [] at = "remove_wait" -> "remove_in"
    [] at = "clear_wait" -> "clear_in"
    [] at = "checkout_wait" -> "checkout_in"

\* Mutant: the lock excludes nobody.
CanAcquire_Always(p) == TRUE

\* threading.Lock.acquire succeeds
CanAcquire(p) == lock = 0

acquire(p) ==
  /\ pc[p] \in WaitPcs
  /\ CanAcquire(p)
  /\ lock' = p
  /\ pc' = [pc EXCEPT ![p] = Entered(pc[p])]
  /\ out' = NoOut
  /\ UNCHANGED <<clients, carts, heap, req, local, nreq, norders, nempty, touched, post>>

\* Mutant: get_cart reads with `carts.get(session_id, {})`, as checkout does,
\* and so creates no entry.
get_cart_Get(p) ==
  LET s == req[p].sid
      o == IF carts[s] # NoObj THEN carts[s] ELSE NewObj(heap)
  IN /\ pc[p] = "view_in"
     /\ local' = [local EXCEPT ![p].cart = o]
     /\ heap' = IF carts[s] # NoObj THEN heap
                ELSE [heap EXCEPT ![o] = [owner |-> s, slots |-> <<>>]]
     /\ lock' = 0
     /\ pc' = [pc EXCEPT ![p] = "totals_iter"]
     /\ UNCHANGED <<clients, carts, nreq, norders, post>>
     /\ Continue(p)

\* Mutant: get_cart takes the lock with `lock.acquire()` and returns without
\* releasing it.
get_cart_Hold(p) ==
  /\ pc[p] = "view_in"
  /\ carts' = SetDefaultCarts(carts, heap, req[p].sid)
  /\ local' = [local EXCEPT ![p].cart = carts'[req[p].sid]]
  /\ heap' = Collect(SetDefaultHeap(carts, heap, req[p].sid), carts', local')
  /\ pc' = [pc EXCEPT ![p] = "totals_iter"]
  /\ UNCHANGED <<clients, lock, nreq, norders, post>>
  /\ Continue(p)

\* get_cart: `with lock: return carts.setdefault(session_id, {})`
get_cart(p) ==
  /\ pc[p] = "view_in"
  /\ carts' = SetDefaultCarts(carts, heap, req[p].sid)
  /\ local' = [local EXCEPT ![p].cart = carts'[req[p].sid]]
  /\ heap' = Collect(SetDefaultHeap(carts, heap, req[p].sid), carts', local')
  /\ lock' = 0
  /\ pc' = [pc EXCEPT ![p] = "totals_iter"]
  /\ UNCHANGED <<clients, nreq, norders, post>>
  /\ Continue(p)

\* add_to_cart's locked section
add_locked(p) ==
  LET s == req[p].sid
      cs == SetDefaultCarts(carts, heap, s)
      h == SetDefaultHeap(carts, heap, s)
      d == Increment(h[cs[s]].slots, req[p].item_id, req[p].qty)
  IN /\ pc[p] = "add_in"
     /\ carts' = cs
     /\ local' = [local EXCEPT ![p].cart = cs[s]]
     /\ heap' = Collect([h EXCEPT ![cs[s]].slots = d], carts', local')
     /\ lock' = 0
     /\ pc' = [pc EXCEPT ![p] = "totals_iter"]
     /\ post' = [post EXCEPT ![p] = d]
     /\ UNCHANGED <<clients, nreq, norders>>
     /\ Continue(p)

\* Mutant: the decrement is stored before the membership test, which is made
\* on the cart as it was.
remove_locked_Eager(p) ==
  LET s == req[p].sid
      cs == SetDefaultCarts(carts, heap, s)
      h == SetDefaultHeap(carts, heap, s)
      d == h[cs[s]].slots
      h2 == [h EXCEPT ![cs[s]].slots = Decrement(d, req[p].item_id, req[p].qty)]
  IN /\ pc[p] = "remove_in"
     /\ carts' = cs
     /\ UNCHANGED <<clients, nreq, norders>>
     /\ IF ~DictHas(d, req[p].item_id)
        THEN /\ Return(p)
             /\ heap' = Collect(h2, carts', local')
             /\ lock' = 0
             /\ Respond(p, req[p], Error400(s, "NotInCart"))
        ELSE /\ local' = [local EXCEPT ![p].cart = cs[s]]
             /\ heap' = Collect(h2, carts', local')
             /\ pc' = [pc EXCEPT ![p] = "remove_del"]
             /\ UNCHANGED <<lock, post>>
             /\ Continue(p)

\* Mutant: the NotInCart return leaves the locked section without releasing
\* the lock.
remove_locked_Leak(p) ==
  LET s == req[p].sid
      cs == SetDefaultCarts(carts, heap, s)
      h == SetDefaultHeap(carts, heap, s)
      d == h[cs[s]].slots
  IN /\ pc[p] = "remove_in"
     /\ carts' = cs
     /\ UNCHANGED <<clients, nreq, norders>>
     /\ IF ~DictHas(d, req[p].item_id)
        THEN /\ Return(p)
             /\ heap' = Collect(h, carts', local')
             /\ UNCHANGED lock
             /\ Respond(p, req[p], Error400(s, "NotInCart"))
        ELSE /\ local' = [local EXCEPT ![p].cart = cs[s]]
             /\ heap' = Collect([h EXCEPT ![cs[s]].slots =
                                   Decrement(d, req[p].item_id, req[p].qty)], carts', local')
             /\ pc' = [pc EXCEPT ![p] = "remove_del"]
             /\ UNCHANGED <<lock, post>>
             /\ Continue(p)

\* remove_from_cart's locked section, to the decrement
remove_locked(p) ==
  LET s == req[p].sid
      cs == SetDefaultCarts(carts, heap, s)
      h == SetDefaultHeap(carts, heap, s)
      d == h[cs[s]].slots
  IN /\ pc[p] = "remove_in"
     /\ carts' = cs
     /\ UNCHANGED <<clients, nreq, norders>>
     /\ IF ~DictHas(d, req[p].item_id)
        THEN /\ Return(p)
             /\ heap' = Collect(h, carts', local')
             /\ lock' = 0
             /\ Respond(p, req[p], Error400(s, "NotInCart"))
        ELSE /\ local' = [local EXCEPT ![p].cart = cs[s]]
             /\ heap' = Collect([h EXCEPT ![cs[s]].slots =
                                   Decrement(d, req[p].item_id, req[p].qty)], carts', local')
             /\ pc' = [pc EXCEPT ![p] = "remove_del"]
             /\ UNCHANGED <<lock, post>>
             /\ Continue(p)

\* remove_from_cart's locked section, from the decrement on
remove_delete(p) ==
  LET o == local[p].cart
      d == DeleteIfSpent(heap[o].slots, req[p].item_id)
  IN /\ pc[p] = "remove_del"
     /\ heap' = [heap EXCEPT ![o].slots = d]
     /\ lock' = 0
     /\ pc' = [pc EXCEPT ![p] = "totals_iter"]
     /\ post' = [post EXCEPT ![p] = d]
     /\ UNCHANGED <<clients, carts, local, nreq, norders>>
     /\ Continue(p)

\* clear_cart's locked section and its response
clear_locked(p) ==
  LET s == req[p].sid
  IN /\ pc[p] = "clear_in"
     /\ carts' = ResetCarts(carts, heap, s)
     /\ Return(p)
     /\ heap' = Collect(ResetHeap(carts, heap, s), carts', local')
     /\ lock' = 0
     /\ UNCHANGED <<clients, nreq, norders>>
     /\ Respond(p, req[p], Response(200, "", "cleared", <<>>, 0, 0, s))

\* checkout's locked section, to its cart_totals:
\* `cart = carts.get(session_id, {})`
checkout_locked(p) ==
  LET s == req[p].sid
      o == IF carts[s] # NoObj THEN carts[s] ELSE NewObj(heap)
  IN /\ pc[p] = "checkout_in"
     /\ local' = [local EXCEPT ![p].cart = o]
     /\ heap' = IF carts[s] # NoObj THEN heap
                ELSE [heap EXCEPT ![o] = [owner |-> s, slots |-> <<>>]]
     /\ pc' = [pc EXCEPT ![p] = "totals_iter"]
     /\ UNCHANGED <<clients, carts, lock, nreq, norders, post>>
     /\ Continue(p)

\* ------------------------------------------------- cart_totals, stepwise
\* `for item_id, qty in cart_items.items():` creates the iterator, which
\* remembers the dict's size.
totals_iter(p) ==
  LET n == DictLen(heap[local[p].cart].slots)
  IN /\ pc[p] = "totals_iter"
     /\ local' = [local EXCEPT ![p] = Locals(@.cart, 0, n, n, <<>>, 0)]
     /\ pc' = [pc EXCEPT ![p] = "totals_next"]
     /\ UNCHANGED <<clients, carts, heap, lock, nreq, norders, post>>
     /\ Continue(p)

\* The slots of d after position pos that hold an entry.
SlotsAfter(d, pos) == {i \in DOMAIN d : i > pos /\ d[i] # Dummy}

\* The iterator's next() raises RuntimeError: the dict's size is not the one
\* it remembers, or it finds an entry after all it expected.
IterRaises(d, it) ==
  \/ it.used # DictLen(d)
  \/ SlotsAfter(d, it.pos) # {} /\ it.len = 0

Min(S) == CHOOSE i \in S : \A j \in S : i <= j

\* 200 of view_cart, add_to_cart and remove_from_cart
CartResponse(r, items, subtotal) ==
  Response(200, "",
           CASE r.op = "add" -> "added" [] r.op = "remove" -> "removed" [] OTHER -> "",
           items, subtotal, 0, r.sid)

\* One next() of the loop of cart_totals: an exception (which also leaves
\* checkout's `with lock:`), the next entry, or the end of the loop.
totals_next(p) ==
  LET d == heap[local[p].cart].slots
      it == local[p]
      i == Min(SlotsAfter(d, it.pos))
      acc == TotalsStep([items |-> it.items, subtotal |-> it.subtotal], d[i].id, d[i].qty)
  IN /\ pc[p] = "totals_next"
     /\ UNCHANGED <<clients, carts, nreq, norders>>
     /\ IF IterRaises(d, it)
        THEN /\ Return(p)
             /\ heap' = Collect(heap, carts, local')
             /\ lock' = IF lock = p THEN 0 ELSE lock
             /\ Respond(p, req[p], Error500(RuntimeError))
        ELSE IF SlotsAfter(d, it.pos) # {}
        THEN /\ local' = [local EXCEPT ![p] =
                            Locals(it.cart, i, it.used, it.len - 1, acc.items, acc.subtotal)]
             /\ UNCHANGED <<pc, heap, lock, post>>
             /\ Continue(p)
        ELSE IF req[p].op = "checkout"
        THEN /\ pc' = [pc EXCEPT ![p] = "checkout_decide"]
             /\ UNCHANGED <<local, heap, lock, post>>
             /\ Continue(p)
        ELSE /\ Return(p)
             /\ heap' = Collect(heap, carts, local')
             /\ UNCHANGED lock
             /\ Respond(p, req[p], CartResponse(req[p], it.items, it.subtotal))

\* `str(uuid.uuid4())`: an id no order had before
FreshOrderId(n) == n + 1

\* checkout's locked section, from `if not items:` on
checkout_decide(p) ==
  LET s == req[p].sid
  IN /\ pc[p] = "checkout_decide"
     /\ Return(p)
     /\ lock' = 0
     /\ UNCHANGED <<clients, nreq>>
     /\ IF local[p].items = <<>>
        THEN /\ UNCHANGED <<carts, norders>>
             /\ heap' = Collect(heap, carts', local')
             /\ Respond(p, req[p], Error400(s, "EmptyCart"))
        ELSE /\ carts' = ResetCarts(carts, heap, s)
             /\ norders' = norders + 1
             /\ heap' = Collect(ResetHeap(carts, heap, s), carts', local')
             /\ Respond(p, req[p], Response(200, "", "", local[p].items, local[p].subtotal,
                                            FreshOrderId(norders), s))

\* ------------------------------------------------------------ the service
Next ==
  \E p \in Workers :
    \/ health(p)
    \/ get_catalog(p)
    \/ view_cart(p)
    \/ add_to_cart(p)
    \/ remove_from_cart(p)
    \/ clear_cart(p)
    \/ checkout(p)
    \/ acquire(p)
    \/ get_cart(p)
    \/ add_locked(p)
    \/ remove_locked(p)
    \/ remove_delete(p)
    \/ clear_locked(p)
    \/ checkout_locked(p)
    \/ totals_iter(p)
    \/ totals_next(p)
    \/ checkout_decide(p)

Spec == Init /\ [][Next]_vars

TypeOK ==
  /\ carts \in [Sessions -> ObjIds \cup {NoObj}]
  /\ lock \in Workers \cup {0}
  /\ nreq \in 0..MaxRequests
  /\ \A p \in Workers : local[p].cart \in ObjIds \cup {NoObj}

\* The slots of the cart of session s: none without an entry.
CartSlots(cs, h, s) == IF cs[s] = NoObj THEN <<>> ELSE h[cs[s]].slots

\* ------------------------------------------- K checkouts of one nonempty cart
\* The dicts of at most two slots over two catalog items that add_to_cart and
\* remove_from_cart can leave behind, with an entry at least.
SampleQtys == {1, 2}

SampleSlots == {Slot(k, v) : k \in {"1", "2"}, v \in SampleQtys} \cup {Dummy}

SampleCarts ==
  {d \in UNION {[1..n -> SampleSlots] : n \in 1..2} :
     /\ DictLen(d) >= 1
     /\ \A i, j \in DOMAIN d : (i # j /\ d[i] # Dummy) => d[i].id # d[j].id}

\* K threads are each about to enter checkout's `with lock:` for session "A",
\* whose cart is not empty; no other request is under way or will come.
InitCheckout ==
  \E K \in 1..NumWorkers, d \in SampleCarts :
    /\ clients = Clients(0, {}, {}, {})
    /\ carts = [s \in Sessions |-> IF s = "A" THEN 1 ELSE NoObj]
    /\ heap = [o \in ObjIds |-> IF o = 1 THEN [owner |-> "A", slots |-> d] ELSE FreeCell]
    /\ lock = 0
    /\ pc = [p \in Workers |-> IF p <= K THEN "checkout_wait" ELSE "idle"]
    /\ req = [p \in Workers |-> IF p <= K THEN Request("checkout", "A", "", 0) ELSE NoRequest]
    /\ local = [p \in Workers |-> NoLocals]
    /\ out = NoOut
    /\ nreq = K
    /\ norders = 0
    /\ nempty = 0
    /\ touched = [p \in Workers |-> FALSE]
    /\ post = [p \in Workers |-> <<>>]

NextCheckout ==
  \E p \in Workers :
    \/ acquire(p)
    \/ checkout_locked(p)
    \/ totals_iter(p)
    \/ totals_next(p)
    \/ checkout_decide(p)

SpecCheckout == InitCheckout /\ [][NextCheckout]_vars

AllDone == \A p \in Workers : pc[p] = "idle"

\* C1: of K concurrent checkouts of one session with a nonempty cart, which
\* nothing else touches, every one is answered by a 200 with the one order id
\* minted or by a 400 EmptyCart, and once all K are answered exactly one order
\* id has been minted, K - 1 EmptyCart responses have been sent and the cart
\* is empty.
C1_OneCheckoutWins ==
  /\ out.resp.status # 0 =>
       \/ out.resp.status = 200 /\ out.resp.order_id = 1 /\ norders = 1
       \/ out.resp.status = 400 /\ out.resp.error = "EmptyCart"
  /\ AllDone =>
       /\ norders = 1
       /\ nempty = nreq - 1
       /\ Contents(carts, heap, "A") = <<>>

\* Three checkouts or more have all been answered, the last one by EmptyCart.
C1_Witness ==
  /\ AllDone
  /\ nreq >= 3
  /\ nempty >= 2
  /\ out.resp.error = "EmptyCart"

\* ------------------------------------------------------ the service's claims
\* Worker p has read the cart in checkout's locked section and has not left it.
CheckoutHasRead(p) ==
  /\ req[p].op = "checkout"
  /\ pc[p] \in {"totals_iter", "totals_next", "checkout_decide"}

\* C2: from checkout's read of the cart to its clear no step changes the cart
\* of that session; a checkout that fails leaves it as it is, and one that
\* succeeds returns the line items and the total of the cart as it stands when
\* it is cleared, and leaves it empty (so a unit is in the order or in the
\* cart, and in one order only).
C2_CheckoutIndivisible ==
  [][\A p \in Workers :
       CheckoutHasRead(p) =>
         LET s == req[p].sid
             before == CartSlots(carts, heap, s)
             succeeds == out'.worker = p /\ out'.resp.status = 200
         IN /\ ~succeeds => CartSlots(carts', heap', s) = before
            /\ succeeds =>
                 /\ out'.resp.items = cart_totals(before).items
                 /\ out'.resp.subtotal = cart_totals(before).subtotal
                 /\ CartSlots(carts', heap', s) = <<>>]_vars

\* A checkout has just returned an order while an add to the same session
\* was waiting for the lock.
C2_Witness ==
  /\ out.req.op = "checkout"
  /\ out.resp.status = 200
  /\ out.resp.items # <<>>
  /\ \E q \in Workers : pc[q] = "add_wait" /\ req[q].sid = out.req.sid

\* C3: no response reports a line item of quantity 0 or less, the value an
\* entry holds between remove's decrement and its delete.
C3_NoTornRead ==
  \A i \in DOMAIN out.resp.items : out.resp.items[i].qty >= 1

\* C4: the items and the subtotal of the 200 of an add or a remove are those
\* of the session's cart right after its own increment or decrement.
C4_PostMutationSnapshot ==
  (out.resp.status = 200 /\ out.req.op \in {"add", "remove"}) =>
    /\ out.resp.items = cart_totals(out.post).items
    /\ out.resp.subtotal = cart_totals(out.post).subtotal

\* C5: whenever no handler is inside its locked section, every entry of every
\* session's cart has a quantity of 1 at least.
C5_PositiveQuantities ==
  lock = 0 =>
    \A s \in Sessions :
      \A i \in DOMAIN CartSlots(carts, heap, s) :
        CartSlots(carts, heap, s)[i] # Dummy => CartSlots(carts, heap, s)[i].qty >= 1

\* A remove that brought its entry to 0 or below has been answered: the entry
\* is deleted, another entry of the cart is left, and the lock is free.
C5_Witness ==
  /\ lock = 0
  /\ out.req.op = "remove"
  /\ out.resp.status = 200
  /\ \E i \in DOMAIN out.post : out.post[i] = Dummy
  /\ out.resp.items # <<>>

\* C6: a request answered by a 400 (InvalidItem, InvalidQuantity, NotInCart,
\* EmptyCart) has changed the contents of no session's cart.
C6_ErrorsLeaveCarts ==
  out.resp.status = 400 =>
    /\ out.resp.error \in {"InvalidItem", "InvalidQuantity", "NotInCart", "EmptyCart"}
    /\ ~out.touched

\* A remove of an item the cart does not hold, from a cart that holds
\* something else, has been answered by NotInCart.
C6_Witness ==
  /\ out.req.op = "remove"
  /\ out.resp.error = "NotInCart"
  /\ Contents(carts, heap, out.req.sid) # <<>>

\* Every dict is the cart of the session it was created for: `carts` maps a
\* session to its own dict, and a handler works on a dict of its own session.
OwnCarts ==
  /\ \A s \in Sessions : carts[s] # NoObj => heap[carts[s]].owner = s
  /\ \A p \in Workers : local[p].cart # NoObj => heap[local[p].cart].owner = req[p].sid

\* A step that changes the entry or the cart of session B is a step of a
\* handler that serves a request for B.
OnlyOwnSession ==
  \A B \in Sessions :
    (carts'[B] # carts[B] \/ CartSlots(carts', heap', B) # CartSlots(carts, heap, B)) =>
      \E p \in Workers : pc[p] # "idle" /\ req[p].sid = B /\ pc'[p] # pc[p]

\* C7: no request for session A changes the cart of another session B, and a
\* handler reads (and so prices, and answers with) only a cart of the session
\* of its request.
C7_SessionIsolation == []OwnCarts /\ [][OnlyOwnSession]_vars

\* A request for "A" has been answered with its items while "B" holds a cart
\* and a request for "B" is under way.
C7_Witness ==
  /\ out.req.sid = "A"
  /\ out.resp.status = 200
  /\ out.resp.items # <<>>
  /\ CartSlots(carts, heap, "B") # <<>>
  /\ \E q \in Workers : pc[q] # "idle" /\ req[q].sid = "B"

\* C8 as claimed: after any request for session s is answered, s has an entry.
C8_SessionCreated ==
  (out.resp.status # 0 /\ out.req.sid \in Sessions) => carts[out.req.sid] # NoObj

\* The request reached the store in a way that creates the entry: a view, a
\* clear, an add or remove whose qty converted and that passed validation, a
\* checkout that succeeded.
CreatesSession(o) ==
  \/ o.req.op \in {"view", "clear"}
  \/ /\ o.req.op \in {"add", "remove"}
     /\ o.resp.error \notin {"InvalidItem", "InvalidQuantity"}
     /\ o.resp.message # ValueError
  \/ o.req.op = "checkout" /\ o.resp.status = 200

\* C8, amended: after a view, a clear, an add or remove that passed the
\* conversion and validation of item and quantity, or a successful checkout
\* for session s is answered, s has an entry.
C8_SessionCreatedByStore ==
  (out.resp.status # 0 /\ CreatesSession(out)) => carts[out.req.sid] # NoObj

\* The first request of a session, a remove that fails with NotInCart, has
\* been answered and the session has its entry.
C8_Witness ==
  /\ nreq = 1
  /\ out.req.op = "remove"
  /\ out.resp.error = "NotInCart"
  /\ carts[out.req.sid] # NoObj

\* C9: a session that has an entry has one in every later state.
C9_SessionsPersist ==
  [][\A s \in Sessions : carts[s] # NoObj => carts'[s] # NoObj]_vars

\* A clear or a checkout has emptied a cart that held something, and the
\* session still has its entry, with an empty cart.
C9_Witness ==
  /\ out.req.op \in {"clear", "checkout"}
  /\ out.resp.status = 200
  /\ out.touched
  /\ carts[out.req.sid] # NoObj
  /\ CartSlots(carts, heap, out.req.sid) = <<>>

\* C10: a request answered by the generic 500 has changed the contents of no
\* session's cart.
C10_FaultsLeaveCarts ==
  out.resp.status = 500 => ~out.touched

\* Worker p is inside a `with lock:` block.
InLockedSection(p) ==
  \/ pc[p] \in {"view_in", "add_in", "remove_in", "remove_del", "clear_in", "checkout_in"}
  \/ CheckoutHasRead(p)

\* Worker p is at the entry of its `with lock:` and cannot enter it.
Blocked(p) == pc[p] \in WaitPcs /\ ~ENABLED acquire(p)

\* C11 as claimed: no request for a session is blocked on the lock while a
\* request for another session holds it.
C11_NoCrossSessionWait ==
  \A p, q \in Workers : ~(Blocked(p) /\ lock = q /\ req[q].sid # req[p].sid)

\* C11, amended: the one lock serves all sessions, and a request is blocked
\* only at the entry of its locked section and only while another request, of
\* any session, is inside its own locked section; a request that prices
\* outside the lock or has been answered blocks nobody.
C11_BlockedOnlyByLockedSection ==
  \A p \in Workers :
    Blocked(p) => \E q \in Workers : q # p /\ lock = q /\ InLockedSection(q)

\* A request for "A" is blocked while a request for "B" is inside its locked
\* section.
C11_Witness ==
  \E p, q \in Workers :
    /\ Blocked(p) /\ req[p].sid = "A"
    /\ lock = q /\ req[q].sid = "B" /\ InLockedSection(q)

\* C12: every GET /cart is answered by a 200.
C12_ViewNeverFails ==
  (out.req.op = "view" /\ out.resp.status # 0) => out.resp.status = 200

\* ------------------------------------------- an add and the remove that undoes it
\* One client thread and a session "A" that has no entry yet, in a store where
\* session "B" may hold a cart.
InitInverse ==
  \E d \in SampleCarts \cup {<<>>} :
    /\ clients = Clients(1, {"A"}, {"1", "2"}, {1, 2})
    /\ carts = [s \in Sessions |-> IF s = "B" /\ d # <<>> THEN 1 ELSE NoObj]
    /\ heap = [o \in ObjIds |->
                 IF o = 1 /\ d # <<>> THEN [owner |-> "B", slots |-> d] ELSE FreeCell]
    /\ lock = 0
    /\ pc = [p \in Workers |-> "idle"]
    /\ req = [p \in Workers |-> NoRequest]
    /\ local = [p \in Workers |-> NoLocals]
    /\ out = NoOut
    /\ nreq = 0
    /\ norders = 0
    /\ nempty = 0
    /\ touched = [p \in Workers |-> FALSE]
    /\ post = [p \in Workers |-> <<>>]

\* The client's first request: POST /cart/add.
first_add(p) == nreq = 0 /\ add_to_cart(p)

\* The client answers the 200 of its add by a POST /cart/remove of the same
\* item and quantity, with the same session id.
inverse_remove(p) ==
  /\ out.worker = p
  /\ out.req.op = "add"
  /\ out.resp.status = 200
  /\ Admit(p)
  /\ UNCHANGED <<clients, carts, heap, lock, norders>>
  /\ Validate(p, "remove", out.req.sid, out.req.item_id, JsonInt(out.req.qty), "remove_wait")

NextInverse ==
  \E p \in Workers :
    \/ first_add(p)
    \/ inverse_remove(p)
    \/ acquire(p)
    \/ add_locked(p)
    \/ remove_locked(p)
    \/ remove_delete(p)
    \/ totals_iter(p)
    \/ totals_next(p)

SpecInverse == InitInverse /\ [][NextInverse]_vars

\* C13: on a fresh session, add(item, n) followed at once by remove(item, n)
\* succeeds and leaves the cart as it was before the add: no entry for the
\* item, no entry at all, and a response with no line item and subtotal 0.
C13_AddRemoveInverse ==
  (out.req.op = "remove" /\ out.resp.status # 0) =>
    /\ out.resp.status = 200
    /\ Contents(carts, heap, out.req.sid) = <<>>
    /\ ~DictHas(CartSlots(carts, heap, out.req.sid), out.req.item_id)
    /\ out.resp.items = <<>>
    /\ out.resp.subtotal = 0

\* The remove of the 2 units that the add put into the fresh session has been
\* answered.
C13_Witness ==
  /\ out.req.op = "remove"
  /\ out.req.qty = 2
  /\ out.resp.status = 200
  /\ nreq = 2
  /\ out.touched

\* Mapping m without its entry for key k.
Without(m, k) == [x \in DOMAIN m \ {k} |-> m[x]]

\* C14: a remove(item, n) that finds the item in the cart with quantity q
\* leaves the cart with no entry for the item when n >= q and with q - n when
\* n < q, every other entry as it was: its decrement stores q - n and changes
\* nothing else, nothing changes the cart before its delete, and its delete
\* takes out the entry exactly when q - n <= 0.
C14_QuantityFloor ==
  [][\A p \in Workers :
       LET s == req[p].sid
           item == req[p].item_id
           n == req[p].qty
           before == Mapping(CartSlots(carts, heap, s))
           after == Mapping(CartSlots(carts', heap', s))
       IN /\ (pc[p] = "remove_in" /\ pc'[p] = "remove_del") =>
               /\ item \in DOMAIN before
               /\ after = [before EXCEPT ![item] = @ - n]
          /\ (pc[p] = "remove_del" /\ pc'[p] = "remove_del") => after = before
          /\ (pc[p] = "remove_del" /\ pc'[p] # "remove_del") =>
               LET q == before[item] + n
               IN IF n >= q THEN after = Without(before, item)
                  ELSE after = [before EXCEPT ![item] = q - n]]_vars

\* A remove of fewer units than the cart held has been answered: the entry is
\* left with a positive quantity, next to another entry.
C14_Witness ==
  /\ out.req.op = "remove"
  /\ out.resp.status = 200
  /\ DictGet(out.post, out.req.item_id, 0) >= 1
  /\ DictLen(out.post) >= 2

\* C15: every clear is answered by a 200 and leaves its session with an entry
\* and an empty cart, whatever the cart held before: a cart that a clear (or
\* anything else) had already emptied, or nothing at all, included.
C15_ClearIdempotent ==
  (out.req.op = "clear" /\ out.resp.status # 0) =>
    /\ out.resp.status = 200
    /\ carts[out.req.sid] # NoObj
    /\ CartSlots(carts, heap, out.req.sid) = <<>>

\* The third request of the one session of a run, a clear of a cart that was
\* empty already, has been answered.
C15_Witness ==
  /\ clients.sessions = {"A"}
  /\ nreq = 3
  /\ norders = 0
  /\ out.req.op = "clear"
  /\ out.resp.status = 200
  /\ ~out.touched

\* The entries of dict d, in the order an iteration meets them.
Entries(d) == SelectSeq(d, LAMBDA e : e # Dummy)

RECURSIVE SumLineTotals(_)
SumLineTotals(items) ==
  IF items = <<>> THEN 0 ELSE Head(items).line_total + SumLineTotals(Tail(items))

\* Worker p runs cart_totals inside checkout's locked section.
PricesUnderLock(p) == lock = p /\ pc[p] \in {"totals_iter", "totals_next"}

\* C16: cart_totals, run on a cart nobody else changes, returns one line item
\* per entry of the cart, in the cart's order, with the entry's quantity, the
\* catalog's unit price and line_total = unit_price * qty, and a subtotal that
\* is the sum of the line totals (integer cents); it changes neither the cart
\* nor the store.
C16_PricingConsistent ==
  /\ [](\A p \in Workers :
          pc[p] = "checkout_decide" =>
            LET es == Entries(heap[local[p].cart].slots)
                items == local[p].items
            IN /\ Len(items) = Len(es)
               /\ \A i \in DOMAIN items :
                    /\ items[i].id = es[i].id
                    /\ items[i].qty = es[i].qty
                    /\ items[i].unit_price = catalog[es[i].id].price
                    /\ items[i].line_total = items[i].unit_price * items[i].qty
               /\ local[p].subtotal = SumLineTotals(items))
  /\ [][\A p \in Workers :
          (PricesUnderLock(p) /\ out'.worker # p) => UNCHANGED <<carts, heap>>]_vars

\* cart_totals has priced a cart of two entries, the first one item "1" with
\* quantity 2: 199.80 for that line.
C16_Witness ==
  \E p \in Workers :
    /\ pc[p] = "checkout_decide"
    /\ Len(local[p].items) = 2
    /\ local[p].items[1].id = "1"
    /\ local[p].items[1].qty = 2
    /\ local[p].items[1].line_total = 19980
    /\ local[p].subtotal > 19980

\* C17: every response carries the X-Session-Id header with the effective
\* session id: the request's header value when it has one, an id minted for
\* this request otherwise.
C17_SessionHeaderOnEveryResponse ==
  out.resp.status # 0 =>
    /\ out.resp.header # ""
    /\ out.req.sid # "" => out.resp.header = out.req.sid
    /\ out.req.sid = "" => out.resp.header = uuid4(nreq)

\* ------------------------------------------------- the service, scheduled fairly
\* Two client threads on one session, with one item and one quantity.
InitLive ==
  /\ clients = Clients(2, {"A"}, {"1"}, {1})
  /\ carts = [s \in Sessions |-> NoObj]
  /\ heap = [o \in ObjIds |-> FreeCell]
  /\ lock = 0
  /\ pc = [p \in Workers |-> "idle"]
  /\ req = [p \in Workers |-> NoRequest]
  /\ local = [p \in Workers |-> NoLocals]
  /\ out = NoOut
  /\ nreq = 0
  /\ norders = 0
  /\ nempty = 0
  /\ touched = [p \in Workers |-> FALSE]
  /\ post = [p \in Workers |-> <<>>]

\* A step of the thread that handles worker p's request.
Handle(p) ==
  \/ acquire(p)
  \/ get_cart(p)
  \/ add_locked(p)
  \/ remove_locked(p)
  \/ remove_delete(p)
  \/ clear_locked(p)
  \/ checkout_locked(p)
  \/ totals_iter(p)
  \/ totals_next(p)
  \/ checkout_decide(p)

\* Every request thread that can take a step takes one in the end; clients
\* are free to send no further request.
SpecLive == InitLive /\ [][Next]_vars /\ \A p \in Workers : WF_vars(Handle(p))

\* C18: the lock is held only by a handler that is inside its locked section
\* (so every path out of one, the NotInCart and EmptyCart returns included,
\* has released it), no handler waits for the lock while it holds it, a
\* request under way always has a thread that can take a step, and every
\* request that has started is answered in the end.
C18_LockReleasedAndLive ==
  /\ [](\A p \in Workers : lock = p => InLockedSection(p))
  /\ [](\A p \in Workers : pc[p] \in WaitPcs => lock # p)
  /\ []((\E p \in Workers : pc[p] # "idle") => \E p \in Workers : ENABLED Handle(p))
  /\ \A p \in Workers : (pc[p] # "idle") ~> (pc[p] = "idle")

\* A handler has just taken the NotInCart or EmptyCart return out of its
\* locked section while another request waited for the lock, which is free.
C18_Witness ==
  /\ out.resp.error \in {"NotInCart", "EmptyCart"}
  /\ lock = 0
  /\ \E q \in Workers : pc[q] \in WaitPcs

\* Every key of every stored cart is a catalog item id.
KeysInCatalog ==
  \A s \in Sessions : DictKeys(CartSlots(carts, heap, s)) \subseteq DOMAIN catalog

\* C19: every key of every stored cart is a catalog item id at all times, and
\* a checkout is answered by the 400 EmptyCart exactly when its session's cart
\* has no entry (or the session has none) as it decides, and by a 200 with an
\* order otherwise.
C19_EmptyCartIffNoEntries ==
  /\ []KeysInCatalog
  /\ [][\A p \in Workers :
          (req[p].op = "checkout" /\ out'.worker = p) =>
            IF DictLen(CartSlots(carts, heap, req[p].sid)) = 0
            THEN out'.resp.status = 400 /\ out'.resp.error = "EmptyCart"
            ELSE /\ out'.resp.status = 200
                 /\ out'.resp.order_id # 0
                 /\ Len(out'.resp.items) = DictLen(CartSlots(carts, heap, req[p].sid))]_vars

\* A checkout has been answered by EmptyCart for a session whose cart exists
\* and has lost its only entry to a remove.
C19_Witness ==
  /\ out.req.op = "checkout"
  /\ out.resp.error = "EmptyCart"
  /\ carts[out.req.sid] # NoObj
  /\ CartSlots(carts, heap, out.req.sid) # <<>>

\* C20: an add or remove whose item id is missing or not in the catalog is
\* answered by InvalidItem whatever its qty; InvalidQuantity is answered only
\* for a valid item and a qty of 0 or less; NotInCart only to a remove with a
\* valid item and a valid qty, which leaves the cart as it is.
C20_ValidationPrecedence ==
  (out.req.op \in {"add", "remove"} /\ out.resp.status # 0) =>
    /\ InvalidItem(out.req.item_id) => out.resp.error = "InvalidItem"
    /\ out.resp.error = "InvalidQuantity" =>
         ~InvalidItem(out.req.item_id) /\ out.req.qty <= 0
    /\ out.resp.error = "NotInCart" =>
         /\ out.req.op = "remove"
         /\ ~InvalidItem(out.req.item_id)
         /\ out.req.qty >= 1
         /\ ~out.touched

=============================================================================
